---- MODULE Spec2Model ----
(***************************************************************************)
(* Verification model of stronger-start-calc.                              *)
(*                                                                         *)
(*   - stronger_start/household.py: the two closed-form benefit formulas   *)
(*     evaluated over an income series built with range().                 *)
(*   - stronger_start/dynamic_charts/microsim.py: the weighted decile      *)
(*     aggregation over the arrays returned by the microsimulation.        *)
(*                                                                         *)
(* Arithmetic.  The Python code works in binary floating point with        *)
(* phase_in_rate = 0.15.  The model keeps every quantity as an exact       *)
(* rational on a fixed grid: 0.15 is RateNum/RateDen = 3/20, incomes are   *)
(* counted in thirds of a dollar (so that 1700*n/0.15 = 34000*n/3 is on    *)
(* the grid) and dollar amounts in sixtieths of a dollar.  For the inputs  *)
(* of the model the float results differ from the exact ones by less than  *)
(* 1e-12 (374.95000000000016 for 374.95) and no comparison of the code     *)
(* changes its outcome.                                                    *)
(***************************************************************************)
EXTENDS Integers, Sequences, FiniteSets, TLC

VARIABLES
    pc,                        \* position of the running call
    error,                     \* exception raised by the call, or "none"
    filing_status, num_children, min_income, max_income, step,
    employment_income_values,  \* list(range(min_income, max_income + 1, step))
    net_income_changes,        \* household.py: net_income_changes
    baseline_credits,          \* household.py: baseline_credits
    reform_credits,            \* household.py: reform_credits
    household_income_decile_hh,  \* baseline.calculate("household_income_decile")
    household_weights_hh,        \* baseline.calculate("household_weight")
    baseline_income_hh,          \* baseline.calculate("household_net_income")
    reform_income_hh,            \* reform.calculate("household_net_income")
    income_change_hh,            \* reform_income_hh - baseline_income_hh
    avg_impact_by_decile,        \* list of 10 rounded dollar averages
    pct_change_hh,               \* np.where(baseline > 0, change / baseline * 100, 0)
    masks,                       \* the five boolean outcome arrays
    decile_outcomes,             \* bucket name -> list of 10 percentages
    all_outcomes,                \* bucket name -> population percentage
    simulations,                 \* configurations the engine was run with, in order
    main_pc,                     \* generate_dynamic_charts.main: position
    charts_dir_exists,           \* CHARTS_DIR exists on disk
    microsim_data,               \* main: the value calculate_decile_impacts returned
    chart_no,                    \* main: which of the four charts is being made
    fig,                         \* main: the figure created last
    files,                       \* HTML files written, in order
    base_given,                  \* ten_year_impact.py: base_year_cost_millions was passed
    base_year_cost_millions, start_year, end_year,
    annual_growth_rate,          \* as a fraction [num, den]
    yearly_impacts,              \* ten_year_impact.py: yearly_impacts
    cumulative_cost,             \* ten_year_impact.py: cumulative_cost, a fraction
    total_cost,                  \* the second element of the returned tuple, in tenths
    traces,                      \* charts.py: the traces of fig, with their visibility
    buttons,                     \* charts.py: the buttons of the dropdown
    layout_title,                \* charts.py: the title the figure displays
    selections                   \* the buttons selected so far, in order

hvars == << filing_status, num_children, min_income, max_income, step,
            employment_income_values, net_income_changes,
            baseline_credits, reform_credits >>

avars == << household_income_decile_hh, household_weights_hh, baseline_income_hh,
            reform_income_hh, income_change_hh, avg_impact_by_decile,
            pct_change_hh, masks, decile_outcomes, all_outcomes >>

rvars == << main_pc, charts_dir_exists, microsim_data, chart_no, fig, files >>

tvars == << base_given, base_year_cost_millions, start_year, end_year,
            annual_growth_rate, yearly_impacts, cumulative_cost, total_cost >>

cvars == << traces, buttons, layout_title, selections >>

vars == << pc, error, hvars, avars, simulations, rvars, tvars, cvars >>

(***************************************************************************)
(* Bounds of the model.                                                    *)
(***************************************************************************)
MaxSpan == 2
MaxUnits == 2       \* units returned by the simulation (equal-length arrays)
MaxArrayLen == 2    \* array length when the four arrays are drawn independently

FilingStatuses == {"single", "joint"}
NumChildren == 0..3
MinIncomes == {0 - 100, 0, 2499, 11333, 13833, 20000, 22666, 25166, 29999, 33999, 36499}
Spans == (0 - MaxSpan - 1)..MaxSpan
Steps == {0 - 1, 0, 1, 2, 2500}

(***************************************************************************)
(* Exact-rational grid for phase_in_rate = 0.15.                           *)
(***************************************************************************)
RateNum == 3
RateDen == 20
IncomeScale == RateNum              \* incomes in 1/3 dollar
MoneyScale == RateNum * RateDen     \* amounts in 1/60 dollar

Inc(x) == x * IncomeScale           \* whole dollars -> thirds
Dollars(m) == m * MoneyScale        \* whole dollars -> sixtieths
\* x * 0.15 for an income x given in thirds, result in sixtieths
TimesRate(x3) == x3 * RateNum
\* m / 0.15 for a whole-dollar amount m, result in thirds
DivRate(m) == m * RateDen

Min(a, b) == IF a <= b THEN a ELSE b

(***************************************************************************)
(* range(start, stop, step) of Python, for step # 0.                       *)
(***************************************************************************)
CeilDiv(a, b) == (a + b - 1) \div b

RangeLen(start, stop, st) ==
    IF st > 0
    THEN (IF stop > start THEN CeilDiv(stop - start, st) ELSE 0)
    ELSE (IF start > stop THEN CeilDiv(start - stop, 0 - st) ELSE 0)

Range(start, stop, st) ==
    [i \in 1..RangeLen(start, stop, st) |-> start + (i - 1) * st]

(***************************************************************************)
(* calculate_net_income_changes: constants and the loop body.              *)
(***************************************************************************)
max_refundable_per_child == 1700
baseline_threshold == 2500
max_benefit == TimesRate(Inc(baseline_threshold))

reform_reaches_max(n) == DivRate(max_refundable_per_child * n)
baseline_reaches_max(n) == reform_reaches_max(n) + Inc(baseline_threshold)

\* The four non-trivial branches of the if/elif chain, as functions of an
\* income in thirds of a dollar.
PhaseInBranch(x3) == TimesRate(x3)
PlateauBranchPerChild == TimesRate(Inc(max_refundable_per_child))
PlateauBranch == max_benefit
PhaseOutBranchRising(x3, n) == max_benefit + TimesRate(x3 - reform_reaches_max(n))
PhaseOutBranchFlat(x3, n) == max_benefit - TimesRate(x3 - Inc(baseline_threshold))
PhaseOutBranch(x3, n) == max_benefit - TimesRate(x3 - reform_reaches_max(n))
ZeroBranch == 0

\* The earlier fixed-breakpoint revision (22667 / 25167 for every household).
NetIncomeChangeFixed(income, n) ==
    IF income = 0 THEN 0
    ELSE IF income <= baseline_threshold THEN PhaseInBranch(Inc(income))
    ELSE IF income <= 22667 THEN PlateauBranch
    ELSE IF income <= 25167
         THEN max_benefit - TimesRate(Inc(income - 22667))
    ELSE ZeroBranch

\* The same chain without the plateau: the phase-in runs up to reform_reaches_max.
NetIncomeChangeNoPlateau(income, n) ==
    IF income = 0 THEN 0
    ELSE IF Inc(income) <= reform_reaches_max(n) THEN PhaseInBranch(Inc(income))
    ELSE IF Inc(income) <= baseline_reaches_max(n) THEN PhaseOutBranch(Inc(income), n)
    ELSE ZeroBranch

NetIncomeChange(income, n) ==
    IF income = 0 THEN 0
    ELSE IF income <= baseline_threshold THEN PhaseInBranch(Inc(income))
    ELSE IF Inc(income) <= reform_reaches_max(n) THEN PlateauBranch
    ELSE IF Inc(income) <= baseline_reaches_max(n) THEN PhaseOutBranch(Inc(income), n)
    ELSE ZeroBranch

\* The loop body as a function of all the arguments of the call: filing_status
\* is a parameter of the function (line 5) that the body never reads.
NetIncomeChangeJoint(fs, income, n) ==
    NetIncomeChange(income, IF fs = "joint" THEN 2 * n ELSE n)

NetIncomeChangeFor(fs, income, n) == NetIncomeChange(income, n)

(***************************************************************************)
(* calculate_baseline_reform_comparison: constants and the loop body.      *)
(***************************************************************************)
MAX_REFUNDABLE == 1700
BASELINE_THRESHOLD == 2500

BaselineCreditUncapped(income) ==
    IF income <= BASELINE_THRESHOLD
    THEN 0
    ELSE TimesRate(Inc(income - BASELINE_THRESHOLD))

BaselineCredit(income) ==
    IF income <= BASELINE_THRESHOLD
    THEN 0
    ELSE Min(TimesRate(Inc(income - BASELINE_THRESHOLD)), Dollars(MAX_REFUNDABLE))

\* The reform credit capped for two children.
ReformCreditTwoChildren(income) ==
    Min(TimesRate(Inc(income)), Dollars(2 * MAX_REFUNDABLE))

ReformCreditLate(income) ==
    Min(TimesRate(Inc(income - BASELINE_THRESHOLD - BASELINE_THRESHOLD)),
        Dollars(MAX_REFUNDABLE))

ReformCredit(income) == Min(TimesRate(Inc(income)), Dollars(MAX_REFUNDABLE))

(***************************************************************************)
(* Initial state: no call has been made.                                   *)
(***************************************************************************)
HInit ==
    /\ filing_status = "single"
    /\ num_children = 2
    /\ min_income = 0
    /\ max_income = 0
    /\ step = 1
    /\ employment_income_values = << >>
    /\ net_income_changes = << >>
    /\ baseline_credits = << >>
    /\ reform_credits = << >>

BucketNames == {"gain_more_than_5pct", "gain_less_than_5pct", "no_change",
                "loss_less_than_5pct", "loss_more_than_5pct"}

AInit ==
    /\ household_income_decile_hh = << >>
    /\ household_weights_hh = << >>
    /\ baseline_income_hh = << >>
    /\ reform_income_hh = << >>
    /\ income_change_hh = << >>
    /\ avg_impact_by_decile = << >>
    /\ pct_change_hh = << >>
    /\ masks = [k \in BucketNames |-> << >>]
    /\ decile_outcomes = [k \in BucketNames |-> << >>]
    /\ all_outcomes = [k \in BucketNames |-> [nan |-> FALSE, tenths |-> 0]]

\* What main holds before calculate_decile_impacts has returned, and before
\* the first figure exists.
NoMicrosimData ==
    [decile_outcomes |-> [k \in BucketNames |-> << >>],
     all_outcomes |-> [k \in BucketNames |-> [nan |-> FALSE, tenths |-> 0]],
     avg_impact_by_decile |-> << >>]
NoFigure == [chart |-> "none", data |-> NoMicrosimData]

RInit ==
    /\ main_pc = "not_started"
    /\ charts_dir_exists = FALSE
    /\ microsim_data = NoMicrosimData
    /\ chart_no = 1
    /\ fig = NoFigure
    /\ files = << >>

\* signature defaults of calculate_ten_year_impact (lines 18-21)
DEFAULT_BASE_YEAR_COST_MILLIONS == 1593
DEFAULT_START_YEAR == 2026
DEFAULT_END_YEAR == 2035
DEFAULT_ANNUAL_GROWTH_RATE == [num |-> 1, den |-> 50]

TInit ==
    /\ base_given = FALSE
    /\ base_year_cost_millions = DEFAULT_BASE_YEAR_COST_MILLIONS
    /\ start_year = DEFAULT_START_YEAR
    /\ end_year = DEFAULT_END_YEAR
    /\ annual_growth_rate = DEFAULT_ANNUAL_GROWTH_RATE
    /\ yearly_impacts = << >>
    /\ cumulative_cost = [num |-> 0, den |-> 1]
    /\ total_cost = 0

\* what a figure displays as its title: the scenario named in the subtitle
NoTitle == [filing_label |-> "none", num_children |-> 0, noun |-> "none"]

CInit ==
    /\ traces = << >>
    /\ buttons = << >>
    /\ layout_title = NoTitle
    /\ selections = << >>

Init ==
    /\ pc = "idle"
    /\ error = "none"
    /\ HInit
    /\ AInit
    /\ simulations = << >>
    /\ RInit
    /\ TInit
    /\ CInit

\* Every top-level invocation is independent: a behaviour is one call.
Callable == pc = "idle"

(***************************************************************************)
(* calculate_net_income_changes(filing_status, num_children, min_income,   *)
(* max_income, step): line 33 builds the series (range() raises ValueError *)
(* for step 0), lines 48-68 are one loop iteration, line 70 returns.       *)
(***************************************************************************)
CallNetIncome ==
    /\ Callable
    /\ \E fs \in FilingStatuses, n \in NumChildren, lo \in MinIncomes,
          sp \in Spans, st \in Steps :
        /\ filing_status' = fs
        /\ num_children' = n
        /\ min_income' = lo
        /\ max_income' = lo + sp
        /\ step' = st
        /\ net_income_changes' = << >>
        /\ baseline_credits' = << >>
        /\ reform_credits' = << >>
        /\ IF st = 0
           THEN /\ employment_income_values' = << >>
                /\ pc' = "raised"
                /\ error' = "ValueError"
           ELSE /\ employment_income_values' = Range(lo, lo + sp + 1, st)
                /\ pc' = "net_loop"
                /\ error' = "none"
    /\ UNCHANGED << avars, simulations, rvars, tvars, cvars >>

\* The loop inserting each value at the front of the list instead of appending.
NetLoopStepPrepend ==
    /\ pc = "net_loop"
    /\ Len(net_income_changes) < Len(employment_income_values)
    /\ LET income == employment_income_values[Len(net_income_changes) + 1]
       IN  net_income_changes' =
               << NetIncomeChangeFor(filing_status, income, num_children) >>
                   \o net_income_changes
    /\ UNCHANGED << pc, error, filing_status, num_children, min_income, max_income,
                    step, employment_income_values, baseline_credits, reform_credits, avars, simulations, rvars, tvars, cvars >>

NetLoopStep ==
    /\ pc = "net_loop"
    /\ Len(net_income_changes) < Len(employment_income_values)
    /\ LET income == employment_income_values[Len(net_income_changes) + 1]
       IN  net_income_changes' =
               Append(net_income_changes,
                      NetIncomeChangeFor(filing_status, income, num_children))
    /\ UNCHANGED << pc, error, filing_status, num_children, min_income, max_income,
                    step, employment_income_values, baseline_credits, reform_credits, avars, simulations, rvars, tvars, cvars >>

NetReturn ==
    /\ pc = "net_loop"
    /\ Len(net_income_changes) = Len(employment_income_values)
    /\ pc' = "net_done"
    /\ UNCHANGED << error, hvars, tvars, cvars, avars, simulations, rvars >>

(***************************************************************************)
(* calculate_baseline_reform_comparison(min_income, max_income, step):     *)
(* line 96 builds the series, lines 105-118 are one loop iteration.        *)
(***************************************************************************)
CallComparison ==
    /\ Callable
    /\ \E lo \in MinIncomes, sp \in Spans, st \in Steps :
        /\ min_income' = lo
        /\ max_income' = lo + sp
        /\ step' = st
        /\ net_income_changes' = << >>
        /\ baseline_credits' = << >>
        /\ reform_credits' = << >>
        /\ IF st = 0
           THEN /\ employment_income_values' = << >>
                /\ pc' = "raised"
                /\ error' = "ValueError"
           ELSE /\ employment_income_values' = Range(lo, lo + sp + 1, st)
                /\ pc' = "cmp_loop"
                /\ error' = "none"
    /\ UNCHANGED << filing_status, num_children, avars, simulations, rvars, tvars, cvars >>

ComparisonLoopStep ==
    /\ pc = "cmp_loop"
    /\ Len(baseline_credits) < Len(employment_income_values)
    /\ LET income == employment_income_values[Len(baseline_credits) + 1]
       IN  /\ baseline_credits' = Append(baseline_credits, BaselineCredit(income))
           /\ reform_credits' = Append(reform_credits, ReformCredit(income))
    /\ UNCHANGED << pc, error, filing_status, num_children, min_income, max_income,
                    step, employment_income_values, net_income_changes, avars, simulations, rvars, tvars, cvars >>

ComparisonReturn ==
    /\ pc = "cmp_loop"
    /\ Len(baseline_credits) = Len(employment_income_values)
    /\ pc' = "cmp_done"
    /\ UNCHANGED << error, hvars, tvars, cvars, avars, simulations, rvars >>

NextHousehold ==
    \/ CallNetIncome
    \/ NetLoopStep
    \/ NetReturn
    \/ CallComparison
    \/ ComparisonLoopStep
    \/ ComparisonReturn

SpecHousehold == Init /\ [][NextHousehold]_vars

(***************************************************************************)
(* calculate_decile_impacts (dynamic_charts/microsim.py).                  *)
(*                                                                         *)
(* The arrays are numpy arrays.  What the model keeps of numpy:            *)
(*   - a binary operation on arrays of lengths a and b raises ValueError   *)
(*     unless a = b or one of them is 1 (broadcasting); the result has the *)
(*     other length;                                                       *)
(*   - indexing an array with a boolean array of another length raises     *)
(*     IndexError;                                                         *)
(*   - a float division by zero does not raise: 0/0 is NaN;                *)
(*   - max() of an empty array raises ValueError;                          *)
(*   - round(x, k) rounds to the nearest, ties to even.                    *)
(* Net incomes and weights are integers here; a percentage change is kept  *)
(* as the exact fraction num/den, a bucket percentage in tenths of a       *)
(* percent.                                                                *)
(***************************************************************************)
NUM_DECILES == 10

\* Units the simulation may return.  Deciles 1 and 2 are two of the ten deciles
\* of the loops (3..10 stay empty); -1 is a value outside 1..10 (a household
\* ranked in no decile), drawn with fewer combinations to keep the model small.
Deciles == {1, 2}
Weights == {0, 1, 10}
\* <<baseline net income, reform net income>>
IncomePairs == {<<1000, 1000>>, <<1000, 1050>>, <<1000, 1100>>,
                <<1000, 950>>, <<1000, 900>>, <<0, 100>>}
Units == [decile : Deciles, weight : Weights, incomes : IncomePairs]
             \cup [decile : {0 - 1}, weight : {1}, incomes : {<<1000, 1100>>, <<0, 100>>}]

SeqsUpTo(S, n) == UNION {[1..k -> S] : k \in 0..n}

BroadcastOK(a, b) == a = b \/ a = 1 \/ b = 1
BroadcastLen(a, b) == IF a = 1 THEN b ELSE a
\* element i of an array broadcast to a longer one
At(arr, i) == IF Len(arr) = 1 THEN arr[1] ELSE arr[i]

RECURSIVE SumOver(_, _)
SumOver(f, S) ==
    IF S = {} THEN 0
    ELSE LET i == CHOOSE j \in S : TRUE IN f[i] + SumOver(f, S \ {i})

\* round(num / den) to the nearest integer, ties to even; den > 0
RoundHalfEven(num, den) ==
    LET q == (2 * num + den) \div (2 * den)
        tie == (2 * num + den) % (2 * den) = 0
    IN  IF tie /\ q % 2 = 1 THEN q - 1 ELSE q

\* round((w / total) * 100, 1), in tenths of a percent; total > 0
Pct1(w, total) == RoundHalfEven(1000 * w, total)

\* household_income_decile_hh == decile, as the set of selected indices
InDecile(d) == {i \in 1..Len(household_income_decile_hh) :
                    household_income_decile_hh[i] = d}

\* Every selected unit counted once, whatever its weight.
WeightOfCount(S) == Cardinality(S)

WeightOf(S) == SumOver(household_weights_hh, S)

\* lines 37-45: the four arrays are read, then subtracted
IncomeChange ==
    [i \in 1..BroadcastLen(Len(reform_income_hh), Len(baseline_income_hh)) |->
        At(reform_income_hh, i) - At(baseline_income_hh, i)]

\* lines 49-59, one iteration: the entry appended for decile d, given the
\* array income_change_hh computed at line 45
AvgImpactUnweighted(d, chg) ==
    LET S == InDecile(d)
        decile_weight_hh == WeightOf(S)
    IN  IF decile_weight_hh > 0
        THEN RoundHalfEven(SumOver([i \in S |-> chg[i]], S), Cardinality(S))
        ELSE 0

AvgImpact(d, chg) ==
    LET S == InDecile(d)
        decile_weight_hh == WeightOf(S)
    IN  IF decile_weight_hh > 0
        THEN RoundHalfEven(
                 SumOver([i \in S |-> chg[i] * household_weights_hh[i]], S),
                 decile_weight_hh)
        ELSE 0

\* lines 49-59, one iteration: the exception it raises, or "none"
AvgImpactError(d, chg) ==
    IF Len(household_income_decile_hh) # Len(household_weights_hh)
    THEN "IndexError"
    ELSE IF WeightOf(InDecile(d)) > 0
            /\ Len(chg) # Len(household_income_decile_hh)
         THEN "IndexError"
         ELSE "none"

\* the loop of lines 49-59 from decile d on: the list built and the exception
RECURSIVE AvgImpactLoop(_, _, _)
AvgImpactLoop(d, acc, chg) ==
    IF d > NUM_DECILES THEN [out |-> acc, err |-> "none"]
    ELSE IF AvgImpactError(d, chg) # "none"
         THEN [out |-> acc, err |-> AvgImpactError(d, chg)]
    ELSE AvgImpactLoop(d + 1, Append(acc, AvgImpact(d, chg)), chg)

\* lines 65-69
PctChange ==
    [i \in 1..Len(income_change_hh) |->
        IF At(baseline_income_hh, i) > 0
        THEN [num |-> 100 * income_change_hh[i], den |-> At(baseline_income_hh, i)]
        ELSE [num |-> 0, den |-> 1]]

\* lines 72-76: the five boolean arrays, given pct_change_hh
GainMore5(pct) == [i \in 1..Len(pct) |-> pct[i].num > 5 * pct[i].den]
GainLess5Strict(pct) ==
    [i \in 1..Len(pct) |-> pct[i].num > 0 /\ pct[i].num < 5 * pct[i].den]
GainLess5(pct) ==
    [i \in 1..Len(pct) |-> pct[i].num > 0 /\ pct[i].num <= 5 * pct[i].den]
NoChange == [i \in 1..Len(income_change_hh) |-> income_change_hh[i] = 0]
LossLess5(pct) ==
    [i \in 1..Len(pct) |-> pct[i].num < 0 /\ pct[i].num >= (0 - 5) * pct[i].den]
LossMore5(pct) == [i \in 1..Len(pct) |-> pct[i].num < (0 - 5) * pct[i].den]

Masks(pct) ==
    [k \in BucketNames |->
        CASE k = "gain_more_than_5pct" -> GainMore5(pct)
          [] k = "gain_less_than_5pct" -> GainLess5(pct)
          [] k = "no_change" -> NoChange
          [] k = "loss_less_than_5pct" -> LossLess5(pct)
          [] k = "loss_more_than_5pct" -> LossMore5(pct)]

\* indices selected by a boolean array
Selected(m) == {i \in 1..Len(m) : m[i]}

\* lines 91-113, one iteration: the exception it raises, or "none"
DecileOutcomeError(d) ==
    IF Len(household_income_decile_hh) # Len(household_weights_hh)
    THEN "IndexError"
    ELSE IF WeightOf(InDecile(d)) = 0 THEN "none"
    ELSE IF ~BroadcastOK(Len(household_income_decile_hh), Len(pct_change_hh))
         THEN "ValueError"
    ELSE IF BroadcastLen(Len(household_income_decile_hh), Len(pct_change_hh))
                # Len(household_weights_hh)
         THEN "IndexError"
    ELSE "none"

\* lines 91-113, one iteration: the percentage appended for bucket k
DecileOutcomeUnguarded(d, k) ==
    LET S == InDecile(d)
        decile_weight == WeightOf(S)
    IN  IF decile_weight > 0
        THEN Pct1(WeightOf(S \cap Selected(masks[k])), decile_weight)
        ELSE IF k = "no_change" THEN 1000 ELSE 0

DecileOutcomeOverTotal(d, k) ==
    LET S == InDecile(d)
        decile_weight == WeightOf(S)
    IN  IF decile_weight > 0
        THEN Pct1(WeightOf(S \cap Selected(masks[k])),
                  WeightOf(1..Len(household_weights_hh)))
        ELSE 0

DecileOutcome(d, k) ==
    LET S == InDecile(d)
        decile_weight == WeightOf(S)
    IN  IF decile_weight > 0
        THEN Pct1(WeightOf(S \cap Selected(masks[k])), decile_weight)
        ELSE 0

RECURSIVE DecileOutcomeLoop(_, _)
DecileOutcomeLoop(d, acc) ==
    IF d > NUM_DECILES THEN [out |-> acc, err |-> "none"]
    ELSE IF DecileOutcomeError(d) # "none"
         THEN [out |-> acc, err |-> DecileOutcomeError(d)]
    ELSE DecileOutcomeLoop(
             d + 1, [k \in BucketNames |-> Append(acc[k], DecileOutcome(d, k))])

\* lines 116-131
total_weight == WeightOf(1..Len(household_weights_hh))

\* a float that may be NaN: the value in tenths of a percent, or the NaN flag
Number(t) == [nan |-> FALSE, tenths |-> t]
NaN == [nan |-> TRUE, tenths |-> 0]

AllOutcomeInDeciles(k) ==
    IF total_weight = 0
    THEN NaN
    ELSE Number(Pct1(
             WeightOf({i \in Selected(masks[k]) :
                          household_income_decile_hh[i] \in 1..NUM_DECILES}),
             total_weight))

AllOutcome(k) ==
    IF total_weight = 0
    THEN NaN
    ELSE Number(Pct1(WeightOf(Selected(masks[k])), total_weight))

(***************************************************************************)
(* Lines 31-32: the engine is invoked once per configuration, each call    *)
(* blocking until the simulation exists.                                   *)
(***************************************************************************)
\* line 31: baseline = Microsimulation()
RunBaseline ==
    /\ Callable
    /\ simulations' = Append(simulations, "baseline")
    /\ pc' = "agg_reform"
    /\ UNCHANGED << error, hvars, tvars, cvars, avars, rvars >>

\* The reform simulation left out: line 32 passed without invoking the engine.
RunReformSkipped ==
    /\ pc = "agg_reform"
    /\ pc' = "agg_read"
    /\ UNCHANGED << error, hvars, tvars, cvars, avars, simulations, rvars >>

\* line 32: reform = Microsimulation(reform=stronger_start_reform)
RunReform ==
    /\ pc = "agg_reform"
    /\ simulations' = Append(simulations, "reform")
    /\ pc' = "agg_read"
    /\ UNCHANGED << error, hvars, tvars, cvars, avars, rvars >>

SimulationSteps ==
    \/ RunBaseline
    \/ RunReform

(***************************************************************************)
(* Lines 37-42: the four arrays are read from the two simulations.  The    *)
(* engine computes them for the same households, so they have one length.  *)
(***************************************************************************)
SimulationReturnsFrom(U) ==
    /\ pc = "agg_read"
    /\ \E units \in SeqsUpTo(U, MaxUnits) :
        /\ household_income_decile_hh' = [i \in 1..Len(units) |-> units[i].decile]
        /\ household_weights_hh' = [i \in 1..Len(units) |-> units[i].weight]
        /\ baseline_income_hh' = [i \in 1..Len(units) |-> units[i].incomes[1]]
        /\ reform_income_hh' = [i \in 1..Len(units) |-> units[i].incomes[2]]
    /\ pc' = "agg_household_level"
    /\ UNCHANGED << simulations, rvars, error, hvars, tvars, cvars, income_change_hh, avg_impact_by_decile,
                    pct_change_hh, masks, decile_outcomes, all_outcomes >>

SimulationReturns == SimulationReturnsFrom(Units)

\* The same call when the engine breaks its contract: four arrays of any
\* lengths.
SimulationReturnsAnyLengths ==
    /\ pc = "agg_read"
    /\ \E ds \in SeqsUpTo({1, 2}, MaxArrayLen), ws \in SeqsUpTo({0, 1}, MaxArrayLen),
          bs \in SeqsUpTo({0, 1000}, MaxArrayLen),
          rs \in SeqsUpTo({1000, 1100}, MaxArrayLen) :
        /\ household_income_decile_hh' = ds
        /\ household_weights_hh' = ws
        /\ baseline_income_hh' = bs
        /\ reform_income_hh' = rs
    /\ pc' = "agg_household_level"
    /\ UNCHANGED << simulations, rvars, error, hvars, tvars, cvars, income_change_hh, avg_impact_by_decile,
                    pct_change_hh, masks, decile_outcomes, all_outcomes >>

\* lines 45-59
HouseholdLevel ==
    /\ pc = "agg_household_level"
    /\ IF ~BroadcastOK(Len(reform_income_hh), Len(baseline_income_hh))
       THEN /\ pc' = "raised"
            /\ error' = "ValueError"
            /\ UNCHANGED << income_change_hh, avg_impact_by_decile >>
       ELSE /\ income_change_hh' = IncomeChange
            /\ LET r == AvgImpactLoop(1, << >>, IncomeChange) IN
                /\ avg_impact_by_decile' = r.out
                /\ error' = r.err
                /\ pc' = IF r.err = "none" THEN "agg_masks" ELSE "raised"
    /\ UNCHANGED << simulations, rvars, hvars, tvars, cvars, household_income_decile_hh, household_weights_hh,
                    baseline_income_hh, reform_income_hh, pct_change_hh, masks,
                    decile_outcomes, all_outcomes >>

\* lines 65-76
Categorize ==
    /\ pc = "agg_masks"
    /\ pct_change_hh' = PctChange
    /\ masks' = Masks(PctChange)
    /\ pc' = "agg_decile_outcomes"
    /\ UNCHANGED << simulations, rvars, error, hvars, tvars, cvars, household_income_decile_hh, household_weights_hh,
                    baseline_income_hh, reform_income_hh, income_change_hh,
                    avg_impact_by_decile, decile_outcomes, all_outcomes >>

\* lines 83-113
OutcomesByDecile ==
    /\ pc = "agg_decile_outcomes"
    /\ LET r == DecileOutcomeLoop(1, [k \in BucketNames |-> << >>]) IN
        /\ decile_outcomes' = r.out
        /\ error' = r.err
        /\ pc' = IF r.err = "none" THEN "agg_all_outcomes" ELSE "raised"
    /\ UNCHANGED << simulations, rvars, hvars, tvars, cvars, household_income_decile_hh, household_weights_hh,
                    baseline_income_hh, reform_income_hh, income_change_hh,
                    avg_impact_by_decile, pct_change_hh, masks, all_outcomes >>

\* lines 116-131
OverallOutcomes ==
    /\ pc = "agg_all_outcomes"
    /\ IF Len(pct_change_hh) # Len(household_weights_hh)
       THEN /\ pc' = "raised"
            /\ error' = "IndexError"
            /\ UNCHANGED all_outcomes
       ELSE /\ all_outcomes' = [k \in BucketNames |-> AllOutcome(k)]
            /\ pc' = "agg_debug"
            /\ UNCHANGED error
    /\ UNCHANGED << simulations, rvars, hvars, tvars, cvars, household_income_decile_hh, household_weights_hh,
                    baseline_income_hh, reform_income_hh, income_change_hh,
                    avg_impact_by_decile, pct_change_hh, masks, decile_outcomes >>

\* lines 134-167: the debug prints (pct_change_hh.max() needs a non-empty
\* array), then the return of the three results
DebugAndReturn ==
    /\ pc = "agg_debug"
    /\ IF Len(pct_change_hh) = 0
       THEN /\ pc' = "raised"
            /\ error' = "ValueError"
       ELSE /\ pc' = "agg_done"
            /\ UNCHANGED error
    /\ UNCHANGED << hvars, tvars, cvars, avars, simulations, rvars >>

AggregatorSteps ==
    \/ HouseholdLevel
    \/ Categorize
    \/ OutcomesByDecile
    \/ OverallOutcomes
    \/ DebugAndReturn

NextAggregator ==
    \/ SimulationSteps
    \/ SimulationReturns
    \/ AggregatorSteps

SpecAggregator == Init /\ [][NextAggregator]_vars

NextAnyLengths ==
    \/ SimulationSteps
    \/ SimulationReturnsAnyLengths
    \/ AggregatorSteps

SpecAnyLengths == Init /\ [][NextAnyLengths]_vars

(***************************************************************************)
(* generate_dynamic_charts.main (src/generate_dynamic_charts.py).          *)
(*                                                                         *)
(* main creates CHARTS_DIR (line 70), calls calculate_decile_impacts (line *)
(* 80) and then, four times, creates a figure and hands it to              *)
(* generate_chart_html (lines 90-122).  There is no try/except anywhere in *)
(* main, generate_chart_html or calculate_decile_impacts: an exception     *)
(* raised under line 80 leaves main at once.                               *)
(***************************************************************************)
InMain == main_pc # "not_started"

\* Households the engine returns for a run of main.
ReportUnits ==
    [decile : {1}, weight : {0, 1}, incomes : {<< 1000, 1050 >>, << 0, 100 >>}]
        \cup [decile : {2}, weight : {10}, incomes : {<< 1000, 950 >>}]

\* The four charts of main in program order: the function that creates the
\* figure, whether it takes microsim_data, and the title and file name passed
\* to generate_chart_html.
Charts ==
    << [create |-> "create_dynamic_baseline_reform_chart", uses_microsim |-> FALSE,
        title |-> "Baseline vs Reform (Dynamic) - Stronger Start for Working Families Act",
        filename |-> "dynamic-baseline-reform-comparison.html"],
       [create |-> "create_dynamic_net_income_change_chart", uses_microsim |-> FALSE,
        title |-> "Net Income Change (Dynamic) - Stronger Start for Working Families Act",
        filename |-> "dynamic-net-income-change.html"],
       [create |-> "create_dynamic_winners_by_decile_chart", uses_microsim |-> TRUE,
        title |-> "Winners by Income Decile (Dynamic) - Stronger Start for Working Families Act",
        filename |-> "dynamic-winners-by-decile.html"],
       [create |-> "create_dynamic_avg_benefit_by_decile_chart", uses_microsim |-> TRUE,
        title |-> "Average Benefit by Income Decile (Dynamic) - Stronger Start for Working Families Act",
        filename |-> "dynamic-avg-benefit-by-decile.html"] >>

\* fig.to_json() and HTML_TEMPLATE.format(title=..., figure_json=...)
ToJson(f) == [json_of |-> f]
HtmlTemplate(title, figure_json) == [title |-> title, figure_json |-> figure_json]

\* Line 70: CHARTS_DIR.mkdir(parents=True, exist_ok=True)
MainStart ==
    /\ main_pc = "not_started"
    /\ pc = "idle"
    /\ charts_dir_exists' = TRUE
    /\ main_pc' = "microsim"
    /\ UNCHANGED << pc, error, hvars, tvars, cvars, avars, simulations, microsim_data,
                    chart_no, fig, files >>

\* Line 80 -> microsim.py lines 31-32 inside main.
MainSimulationSteps ==
    /\ main_pc = "microsim"
    /\ SimulationSteps

\* Line 80 -> microsim.py lines 37-42: the arrays are read and returned.
MainSimulationReturns ==
    /\ main_pc = "microsim"
    /\ SimulationReturnsFrom(ReportUnits)

\* Line 80 -> microsim.py lines 31-42: the engine raises, either in the
\* invocation for the baseline (line 31) or the reform (line 32), or while
\* an array is calculated (lines 37-42).
MainSimulationFails ==
    /\ main_pc = "microsim"
    /\ pc \in {"idle", "agg_reform", "agg_read"}
    /\ simulations' = CASE pc = "idle" -> Append(simulations, "baseline")
                         [] pc = "agg_reform" -> Append(simulations, "reform")
                         [] OTHER -> simulations
    /\ pc' = "raised"
    /\ error' = "EngineError"
    /\ UNCHANGED << hvars, tvars, cvars, avars, rvars >>

\* Line 80 -> microsim.py lines 45-161 inside main.
MainAggregatorSteps ==
    /\ main_pc = "microsim"
    /\ AggregatorSteps

\* Line 80: calculate_decile_impacts returned (microsim.py lines 163-167).
MicrosimComplete ==
    /\ main_pc = "microsim"
    /\ pc = "agg_done"
    /\ microsim_data' = [decile_outcomes |-> decile_outcomes,
                         all_outcomes |-> all_outcomes,
                         avg_impact_by_decile |-> avg_impact_by_decile]
    /\ main_pc' = "create"
    /\ UNCHANGED << pc, error, hvars, tvars, cvars, avars, simulations, charts_dir_exists,
                    chart_no, fig, files >>

\* The exception handled after a failed call: main carries on with the charts.
MicrosimRaisesHandled ==
    /\ main_pc = "microsim"
    /\ pc = "raised"
    /\ main_pc' = "create"
    /\ UNCHANGED << pc, error, hvars, tvars, cvars, avars, simulations, charts_dir_exists,
                    microsim_data, chart_no, fig, files >>

\* Line 80: calculate_decile_impacts raised; nothing catches it, main ends.
MicrosimRaises ==
    /\ main_pc = "microsim"
    /\ pc = "raised"
    /\ main_pc' = "failed"
    /\ UNCHANGED << pc, error, hvars, tvars, cvars, avars, simulations, charts_dir_exists,
                    microsim_data, chart_no, fig, files >>

\* The second chart written from the figure of the first: line 99 left out.
CreateChartStale ==
    /\ main_pc = "create"
    /\ fig' = IF chart_no = 2 THEN fig
              ELSE [chart |-> Charts[chart_no].create,
                    data |-> IF Charts[chart_no].uses_microsim
                             THEN microsim_data ELSE NoMicrosimData]
    /\ main_pc' = "write"
    /\ UNCHANGED << pc, error, hvars, tvars, cvars, avars, simulations, charts_dir_exists,
                    microsim_data, chart_no, files >>

\* Lines 90, 99, 108, 117: the figure of chart chart_no is created.
CreateChart ==
    /\ main_pc = "create"
    /\ fig' = [chart |-> Charts[chart_no].create,
               data |-> IF Charts[chart_no].uses_microsim
                        THEN microsim_data ELSE NoMicrosimData]
    /\ main_pc' = "write"
    /\ UNCHANGED << pc, error, hvars, tvars, cvars, avars, simulations, charts_dir_exists,
                    microsim_data, chart_no, files >>

\* Lines 53-64 called from lines 91, 100, 109, 118: the file is written into
\* CHARTS_DIR; open() raises FileNotFoundError when the directory is missing.
generate_chart_html ==
    /\ main_pc = "write"
    /\ IF charts_dir_exists
       THEN /\ files' = Append(files,
                    [filename |-> Charts[chart_no].filename,
                     content |-> HtmlTemplate(Charts[chart_no].title, ToJson(fig))])
            /\ IF chart_no < Len(Charts)
               THEN chart_no' = chart_no + 1 /\ main_pc' = "create"
               ELSE chart_no' = chart_no /\ main_pc' = "done"
            /\ UNCHANGED error
       ELSE /\ main_pc' = "failed"
            /\ error' = "FileNotFoundError"
            /\ UNCHANGED << files, chart_no >>
    /\ UNCHANGED << pc, hvars, tvars, cvars, avars, simulations, charts_dir_exists,
                    microsim_data, fig >>

NextReport ==
    \/ MainStart
    \/ MainSimulationSteps
    \/ MainSimulationReturns
    \/ MainSimulationFails
    \/ MainAggregatorSteps
    \/ MicrosimComplete
    \/ MicrosimRaises
    \/ CreateChart
    \/ generate_chart_html

SpecReport == Init /\ [][NextReport]_vars

(***************************************************************************)
(* calculate_ten_year_impact (src/stronger_start/ten_year_impact.py).      *)
(*                                                                         *)
(* Costs are floats in the code; here they are exact fractions.  The       *)
(* growth rate is num / den, the cost of offset i is                       *)
(*     base_year_cost_millions * (den + num)^i / den^i,                    *)
(* and cumulative_cost is kept over the denominator den^i.  round(x, 1) is *)
(* the nearest tenth, ties to even, and is kept in tenths of a million.    *)
(***************************************************************************)
MaxYears == 3

BaseCosts == {0, 789, 1593}
StartYears == {2026, 2030}
GrowthRates == {[num |-> 0, den |-> 1], [num |-> 1, den |-> 50], [num |-> 1, den |-> 2]}
\* end_year - start_year + 1, the number of years of the window
WindowLengths == (0 - 1)..MaxYears

RECURSIVE Pow(_, _)
Pow(b, e) == IF e = 0 THEN 1 ELSE b * Pow(b, e - 1)

\* round(num / den, 1) in tenths; num >= 0, den > 0
Round1(num, den) == 10 * (num \div den) + RoundHalfEven(10 * (num % den), den)

\* line 46: year_cost at offset i, over the denominator den^i
YearCostNum(i) ==
    base_year_cost_millions
        * Pow(annual_growth_rate.den + annual_growth_rate.num, i)
YearCostDen(i) == Pow(annual_growth_rate.den, i)

\* line 47: cumulative_cost += year_cost, at offset i
CumulativeAfter(i) ==
    [num |-> cumulative_cost.num * (YearCostDen(i) \div cumulative_cost.den)
                + YearCostNum(i),
     den |-> YearCostDen(i)]

\* the running total kept as the sum of the rounded yearly costs
YearlyImpactOfRounded(i) ==
    [year |-> start_year + i,
     cost_millions |-> Round1(YearCostNum(i), YearCostDen(i)),
     cumulative_cost_millions |->
        (IF i = 0 THEN 0 ELSE yearly_impacts[i].cumulative_cost_millions)
            + Round1(YearCostNum(i), YearCostDen(i))]

\* lines 49-55: the YearlyImpact appended at offset i
YearlyImpact(i) ==
    [year |-> start_year + i,
     cost_millions |-> Round1(YearCostNum(i), YearCostDen(i)),
     cumulative_cost_millions |->
        Round1(CumulativeAfter(i).num, CumulativeAfter(i).den)]

\* lines 17-42: the call; an argument left out takes its default
CallTenYearImpact ==
    /\ Callable
    /\ \E given \in BOOLEAN, b \in BaseCosts :
        /\ base_given' = given
        /\ base_year_cost_millions' =
                IF given THEN b ELSE DEFAULT_BASE_YEAR_COST_MILLIONS
    /\ \E s \in StartYears, n \in WindowLengths :
        /\ start_year' = s
        /\ end_year' = s + n - 1
    /\ annual_growth_rate' \in GrowthRates
    /\ yearly_impacts' = << >>
    /\ cumulative_cost' = [num |-> 0, den |-> 1]
    /\ pc' = "ty_loop"
    /\ UNCHANGED << error, hvars, avars, simulations, rvars, cvars, total_cost >>

\* lines 44-55: one iteration, offset i = number of entries so far
TenYearLoopStep ==
    /\ pc = "ty_loop"
    /\ start_year + Len(yearly_impacts) <= end_year
    /\ LET i == Len(yearly_impacts) IN
        /\ cumulative_cost' = CumulativeAfter(i)
        /\ yearly_impacts' = Append(yearly_impacts, YearlyImpact(i))
    /\ UNCHANGED << pc, error, hvars, avars, simulations, rvars, cvars, base_given,
                    base_year_cost_millions, start_year, end_year,
                    annual_growth_rate, total_cost >>

\* The total returned as the sum of the rounded yearly costs.
TenYearReturnSumOfRounded ==
    /\ pc = "ty_loop"
    /\ start_year + Len(yearly_impacts) > end_year
    /\ total_cost' =
            SumOver([j \in 1..Len(yearly_impacts) |-> yearly_impacts[j].cost_millions],
                    1..Len(yearly_impacts))
    /\ pc' = "ty_done"
    /\ UNCHANGED << error, hvars, avars, simulations, rvars, cvars, base_given,
                    base_year_cost_millions, start_year, end_year,
                    annual_growth_rate, yearly_impacts, cumulative_cost >>

\* line 57: return yearly_impacts, round(cumulative_cost, 1)
TenYearReturn ==
    /\ pc = "ty_loop"
    /\ start_year + Len(yearly_impacts) > end_year
    /\ total_cost' = Round1(cumulative_cost.num, cumulative_cost.den)
    /\ pc' = "ty_done"
    /\ UNCHANGED << error, hvars, avars, simulations, rvars, cvars, base_given,
                    base_year_cost_millions, start_year, end_year,
                    annual_growth_rate, yearly_impacts, cumulative_cost >>

NextTenYear ==
    \/ CallTenYearImpact
    \/ TenYearLoopStep
    \/ TenYearReturn

SpecTenYear == Init /\ [][NextTenYear]_vars

(***************************************************************************)
(* create_net_income_change_chart (src/stronger_start/charts.py) and the   *)
(* dropdown of the figure it returns.  A button of method "update" sets    *)
(* the visible attribute of every trace from its first argument and the    *)
(* title of the layout from its second.                                    *)
(***************************************************************************)
MaxSelections == 3

\* lines 52-65: the scenarios in the order of the two nested loops
ScenarioFilingStatuses == << "single", "joint" >>
ScenarioChildren == << 1, 2, 3 >>
NumScenarios == Len(ScenarioFilingStatuses) * Len(ScenarioChildren)
Scenarios ==
    [i \in 1..NumScenarios |->
        [filing_status |->
            ScenarioFilingStatuses[((i - 1) \div Len(ScenarioChildren)) + 1],
         num_children |-> ScenarioChildren[((i - 1) % Len(ScenarioChildren)) + 1]]]

\* line 72: visible = i == 0 (the first scenario; positions count from 1 here)
InitiallyVisible(i) == i = 1

\* lines 88-89: the label of a scenario, "<Single|Joint>, <n> child[ren]"
Label(scenario) ==
    [filing_label |-> IF scenario.filing_status = "single" THEN "Single" ELSE "Joint",
     num_children |-> scenario.num_children,
     noun |-> IF scenario.num_children > 1 THEN "children" ELSE "child"]

\* The visibility list with the entry after the button's own set.
ButtonVisibilityShifted(i) == [j \in 1..NumScenarios |-> j = (i % NumScenarios) + 1]

\* lines 92-93: visibility = [False] * len(scenarios); visibility[i] = True
ButtonVisibility(i) == [j \in 1..NumScenarios |-> j = i]

\* lines 95-104
Button(i) ==
    [label |-> Label(Scenarios[i]),
     visible |-> ButtonVisibility(i),
     title |-> Label(Scenarios[i])]

\* line 121: the title set by update_layout, "...<sub>Single, 1 child</sub>"
InitialTitle == [filing_label |-> "Single", num_children |-> 1, noun |-> "child"]

\* lines 49-123: the figure as returned
create_net_income_change_chart ==
    /\ Callable
    /\ traces' = [i \in 1..NumScenarios |->
                    [scenario |-> Scenarios[i], visible |-> InitiallyVisible(i)]]
    /\ buttons' = [i \in 1..NumScenarios |-> Button(i)]
    /\ layout_title' = InitialTitle
    /\ selections' = << >>
    /\ pc' = "chart_shown"
    /\ UNCHANGED << error, hvars, avars, simulations, rvars, tvars >>

\* The viewer selects a button of the dropdown (method "update", lines 96-103).
SelectButton ==
    /\ pc = "chart_shown"
    /\ Len(selections) < MaxSelections
    /\ \E b \in 1..Len(buttons) :
        /\ traces' = [j \in 1..Len(traces) |->
                        [traces[j] EXCEPT !.visible = buttons[b].visible[j]]]
        /\ layout_title' = buttons[b].title
        /\ selections' = Append(selections, b)
    /\ UNCHANGED << pc, error, hvars, avars, simulations, rvars, tvars, buttons >>

NextChart ==
    \/ create_net_income_change_chart
    \/ SelectButton

SpecChart == Init /\ [][NextChart]_vars

Next ==
    \/ NextHousehold
    \/ NextAggregator
    \/ NextReport
    \/ NextTenYear
    \/ NextChart

Spec == Init /\ [][Next]_vars

(***************************************************************************)
(* Properties of the household formulas.                                   *)
(***************************************************************************)
InNetCall == pc \in {"net_loop", "net_done"}
InComparisonCall == pc \in {"cmp_loop", "cmp_done"}

\* Indices of the series whose value has been computed so far.
NetDone == 1..Len(net_income_changes)
ComparisonDone == 1..Len(baseline_credits)

FiveBranchRule(x, n) ==
    CASE x = 0 -> 0
      [] 0 < x /\ x <= 2500 -> 9 * x
      [] 2500 < x /\ 3 * x <= 34000 * n -> 375 * 60
      [] 34000 * n < 3 * x /\ 3 * x <= 34000 * n + 7500 ->
            375 * 60 - (3 * x - 34000 * n) * 3
      [] 3 * x > 34000 * n + 7500 -> 0

\* C5: for n in {1,2,3} and every income x >= 0 of the series, the computed
\* change is the value of the five-branch rule with rate 0.15, threshold 2500
\* and reform_cap_income = 1700 * n / 0.15.
C5_FiveBranchRule ==
    (InNetCall /\ num_children \in 1..3) =>
        \A i \in NetDone :
            employment_income_values[i] >= 0 =>
                net_income_changes[i] =
                    FiveBranchRule(employment_income_values[i], num_children)

C5_Witness ==
    /\ pc = "net_done"
    /\ num_children = 1
    /\ \E i \in NetDone :
        /\ employment_income_values[i] = 11334
        /\ net_income_changes[i] < Dollars(375)
        /\ net_income_changes[i] > 0

\* C6 (as stated): for every income of the series of
\* calculate_baseline_reform_comparison, whatever min_income, max_income and
\* step, the baseline credit is at most the reform credit.
C6_Original ==
    InComparisonCall =>
        \A i \in ComparisonDone : baseline_credits[i] <= reform_credits[i]

\* C6 (amended): for every income x >= 0 of the series the baseline credit is
\* at most the reform credit (for x < 0 the reform credit x * 0.15 is negative
\* and the baseline credit is 0).
C6_BaselineAtMostReform ==
    InComparisonCall =>
        \A i \in ComparisonDone :
            employment_income_values[i] >= 0 =>
                baseline_credits[i] <= reform_credits[i]

C6_Witness ==
    /\ pc = "cmp_done"
    /\ \E i \in ComparisonDone :
        /\ employment_income_values[i] > BASELINE_THRESHOLD
        /\ baseline_credits[i] > 0
        /\ baseline_credits[i] < reform_credits[i]
    /\ \E i \in ComparisonDone :
        /\ baseline_credits[i] = Dollars(MAX_REFUNDABLE)
        /\ reform_credits[i] = Dollars(MAX_REFUNDABLE)

\* C7: for n in {1,2,3} the curve is continuous at each breakpoint: the two
\* branches meeting at 2500 both give 375, the two meeting at
\* reform_reaches_max both give 375, the two meeting at baseline_reaches_max
\* both give 0; a breakpoint that is in the series gets that common value.
C7_Continuity ==
    (InNetCall /\ num_children \in 1..3) =>
        LET n == num_children IN
        /\ PhaseInBranch(Inc(baseline_threshold)) = Dollars(375)
        /\ PlateauBranch = Dollars(375)
        /\ PhaseOutBranch(reform_reaches_max(n), n) = Dollars(375)
        /\ PhaseOutBranch(baseline_reaches_max(n), n) = 0
        /\ ZeroBranch = 0
        /\ \A i \in NetDone :
            LET x3 == Inc(employment_income_values[i])
                c == net_income_changes[i]
            IN  /\ (x3 = Inc(baseline_threshold) => c = Dollars(375))
                /\ (x3 = reform_reaches_max(n) => c = Dollars(375))
                /\ (x3 = baseline_reaches_max(n) => c = 0)

C7_Witness ==
    /\ pc = "net_done"
    /\ num_children = 3
    /\ \E i \in NetDone :
        /\ employment_income_values[i] = 34000
        /\ net_income_changes[i] = Dollars(375)
    /\ \E i \in NetDone :
        /\ employment_income_values[i] = 34001
        /\ net_income_changes[i] < Dollars(375)

(***************************************************************************)
(* Properties of the weighted aggregation.                                 *)
(***************************************************************************)
Abs(x) == IF x < 0 THEN 0 - x ELSE x

DecileRange == 1..NUM_DECILES
SameLengths ==
    /\ Len(household_weights_hh) = Len(household_income_decile_hh)
    /\ Len(baseline_income_hh) = Len(household_income_decile_hh)
    /\ Len(reform_income_hh) = Len(household_income_decile_hh)
UnitIndices == 1..Len(household_income_decile_hh)

MasksComputed == pc \in {"agg_decile_outcomes", "agg_all_outcomes", "agg_debug", "agg_done"}
AvgComputed == Len(avg_impact_by_decile) = NUM_DECILES
DecileOutcomesComputed == \A k \in BucketNames : Len(decile_outcomes[k]) = NUM_DECILES
AllOutcomesComputed == pc \in {"agg_debug", "agg_done"}

BucketsOf(i) == {k \in BucketNames : masks[k][i]}
BucketSum(d) == SumOver([k \in BucketNames |-> decile_outcomes[k][d]], BucketNames)
AllSum == SumOver([k \in BucketNames |-> all_outcomes[k].tenths], BucketNames)

\* C2: every unit is in exactly one of the five outcome buckets: the five
\* masks are pairwise disjoint and together cover every unit.
C2_ExactlyOneBucket ==
    MasksComputed =>
        \A i \in 1..Len(income_change_hh) : Cardinality(BucketsOf(i)) = 1

\* C4: a unit whose baseline net income is not greater than 0 counts as 0%
\* change and is in the no-change bucket whatever its reform value, and the
\* call does not fail on it.
C4_ZeroBaselineIsNoChange ==
    /\ (SameLengths /\ Len(baseline_income_hh) > 0) => pc # "raised"
    /\ MasksComputed =>
        \A i \in 1..Len(income_change_hh) :
            At(baseline_income_hh, i) <= 0 => masks["no_change"][i]

InNoBucket(i) ==
    baseline_income_hh[i] <= 0 /\ reform_income_hh[i] # baseline_income_hh[i]
BucketedWeight(S) == WeightOf({i \in S : ~InNoBucket(i)})

C8_MismatchNeverReturns ==
    ~SameLengths => pc # "agg_done"

\* C9: when the total weight of all units is 0 the call does not fail and the
\* population-wide percentages are defined zeros.
C9_ZeroTotalWeightGuarded ==
    (SameLengths /\ total_weight = 0) =>
        /\ pc # "raised"
        /\ AllOutcomesComputed =>
            \A k \in BucketNames : all_outcomes[k] = Number(0)

\* C10: a decile of zero total weight (no units, or only zero weights) is not
\* an error: neither loop raises on it, its average impact is 0 and its five
\* percentages are 0; a decile of positive weight W gets the integer nearest
\* to sum(w * change) / W and, per bucket, the tenth of a percent nearest to
\* 100 * (weight in the bucket) / W.
C10_ZeroWeightDecile ==
    /\ (SameLengths /\ pc = "raised") => (AvgComputed /\ DecileOutcomesComputed)
    /\ (SameLengths /\ AvgComputed) =>
        \A d \in DecileRange :
            LET S == InDecile(d)
                W == WeightOf(S)
                total == SumOver(
                    [i \in S |-> household_weights_hh[i]
                                   * (reform_income_hh[i] - baseline_income_hh[i])], S)
            IN  IF W = 0
                THEN avg_impact_by_decile[d] = 0
                ELSE 2 * Abs(avg_impact_by_decile[d] * W - total) <= W
    /\ (SameLengths /\ DecileOutcomesComputed) =>
        \A d \in DecileRange : \A k \in BucketNames :
            LET S == InDecile(d)
                W == WeightOf(S)
                inBucket == WeightOf({i \in S : masks[k][i]})
            IN  IF W = 0
                THEN decile_outcomes[k][d] = 0
                ELSE 2 * Abs(decile_outcomes[k][d] * W - 1000 * inBucket) <= W

C10_Witness ==
    /\ pc = "agg_done"
    /\ \E d \in DecileRange : InDecile(d) # {} /\ WeightOf(InDecile(d)) = 0
    /\ \E d \in DecileRange : InDecile(d) = {}
    /\ \E d \in DecileRange :
        /\ WeightOf(InDecile(d)) > 0
        /\ avg_impact_by_decile[d] # 0
        /\ decile_outcomes["gain_more_than_5pct"][d] = 1000

\* C11: for every decile d in 1..10 of positive total weight,
\* avg_impact_by_decile[d-1] is sum(weight_i * (reform_i - baseline_i)) /
\* sum(weight_i) over exactly the units whose decile is d, rounded to the
\* nearest integer.
C11_WeightedAverage ==
    (SameLengths /\ AvgComputed) =>
        \A d \in DecileRange :
            LET members == {i \in UnitIndices : household_income_decile_hh[i] = d}
                weight == SumOver(household_weights_hh, members)
                weighted == SumOver(
                    [i \in UnitIndices |->
                        household_weights_hh[i]
                            * (reform_income_hh[i] - baseline_income_hh[i])],
                    members)
                avg == avg_impact_by_decile[d]
            IN  weight > 0 =>
                    /\ 2 * avg * weight <= 2 * weighted + weight
                    /\ 2 * avg * weight >= 2 * weighted - weight

C11_Witness ==
    /\ pc = "agg_done"
    /\ household_income_decile_hh = <<1, 1>>
    /\ household_weights_hh = <<1, 10>>
    /\ income_change_hh = <<100, 0>>
    /\ avg_impact_by_decile[1] = 9

\* C12: the bucket boundaries are inclusive on the small side: a unit at
\* exactly +5% is in gain<=5% and not in gain>5%, a unit at exactly -5% is in
\* loss<=5% and not in loss>5%; a single decile-1 unit with baseline 1000,
\* reform 1050 and weight 10 gives 100% gain<=5% in decile 1 and 0% in the
\* other four buckets.
C12_InclusiveBoundaries ==
    /\ (SameLengths /\ MasksComputed) =>
        \A i \in UnitIndices :
            LET b == baseline_income_hh[i]
                delta == reform_income_hh[i] - baseline_income_hh[i]
            IN  /\ (b > 0 /\ 100 * delta = 5 * b) =>
                    BucketsOf(i) = {"gain_less_than_5pct"}
                /\ (b > 0 /\ 100 * delta = (0 - 5) * b) =>
                    BucketsOf(i) = {"loss_less_than_5pct"}
    /\ ( /\ DecileOutcomesComputed
         /\ household_income_decile_hh = <<1>>
         /\ baseline_income_hh = <<1000>>
         /\ reform_income_hh = <<1050>>
         /\ household_weights_hh = <<10>> ) =>
        \A k \in BucketNames :
            decile_outcomes[k][1] = IF k = "gain_less_than_5pct" THEN 1000 ELSE 0

C12_Witness ==
    /\ pc = "agg_done"
    /\ household_income_decile_hh = <<1>>
    /\ baseline_income_hh = <<1000>>
    /\ reform_income_hh = <<1050>>
    /\ household_weights_hh = <<10>>
    /\ decile_outcomes["gain_less_than_5pct"][1] = 1000

\* C13: the population-wide percentages use the same five masks and the same
\* weights as the per-decile ones, over all units whatever their decile: each
\* is the tenth of a percent nearest to 100 * (weight of all units in the
\* bucket) / (weight of all units), so a unit whose decile is outside 1..10
\* counts in all_outcomes although it counts in no decile.
C13_PopulationOverAllUnits ==
    (SameLengths /\ AllOutcomesComputed /\ total_weight > 0) =>
        /\ \A k \in BucketNames :
            LET inBucket == SumOver(household_weights_hh,
                                    {i \in UnitIndices : masks[k][i]})
                all == SumOver(household_weights_hh, UnitIndices)
            IN  /\ ~all_outcomes[k].nan
                /\ 2 * Abs(all_outcomes[k].tenths * all - 1000 * inBucket) <= all
        /\ \A i \in UnitIndices :
            (household_income_decile_hh[i] \notin DecileRange
                /\ household_weights_hh[i] > 0) =>
                /\ \A k \in BucketsOf(i) : all_outcomes[k].tenths > 0
                /\ \A d \in DecileRange : i \notin InDecile(d)

C13_Witness ==
    /\ pc = "agg_done"
    /\ \E i \in UnitIndices :
        /\ household_income_decile_hh[i] = 0 - 1
        /\ masks["gain_more_than_5pct"][i]
    /\ all_outcomes["gain_more_than_5pct"].tenths > 0
    /\ \A d \in DecileRange : decile_outcomes["gain_more_than_5pct"][d] = 0
    /\ \E d \in DecileRange : decile_outcomes["no_change"][d] = 1000

\* C14: for every income x of its series,
\* calculate_baseline_reform_comparison returns
\* baseline_credit = min(max(0, x - 2500) * 0.15, 1700) and
\* reform_credit = min(x * 0.15, 1700); at x = 20000 both are the cap 1700.
\* (amounts in sixtieths of a dollar: x * 0.15 is 9 * x, 1700 is 102000)
C14_CreditFormulas ==
    InComparisonCall =>
        \A i \in ComparisonDone :
            LET x == employment_income_values[i]
                over == IF x - 2500 > 0 THEN x - 2500 ELSE 0
            IN  /\ baseline_credits[i] = (IF over * 9 <= 102000 THEN over * 9 ELSE 102000)
                /\ reform_credits[i] = (IF x * 9 <= 102000 THEN x * 9 ELSE 102000)
                /\ x = 20000 =>
                    (baseline_credits[i] = 1700 * 60 /\ reform_credits[i] = 1700 * 60)

C14_Witness ==
    /\ pc = "cmp_done"
    /\ \E i \in ComparisonDone :
        /\ employment_income_values[i] = 20000
        /\ baseline_credits[i] = Dollars(1700)
        /\ reform_credits[i] = Dollars(1700)

\* C15: the result of calculate_net_income_changes does not depend on
\* filing_status: with the same num_children, min_income, max_income and step,
\* every filing status gives the income list and the change list of this call.
C15_FilingStatusIrrelevant ==
    InNetCall =>
        /\ employment_income_values = Range(min_income, max_income + 1, step)
        /\ \A fs \in FilingStatuses : \A i \in NetDone :
            net_income_changes[i] =
                NetIncomeChangeFor(fs, employment_income_values[i], num_children)

C15_Witness ==
    /\ pc = "net_done"
    /\ filing_status = "joint"
    /\ num_children = 2
    /\ \E i \in NetDone :
        /\ net_income_changes[i] > 0
        /\ net_income_changes[i] < Dollars(375)
        /\ employment_income_values[i] > baseline_threshold

\* C16: 375 (threshold * rate) is the maximum benefit: for n in {1,2,3} and
\* every income x >= 0 the change is between 0 and 375, and it is 375 at every
\* x with 2500 <= x <= reform_cap_income = 1700 * n / 0.15.
C16_MaxBenefit ==
    (InNetCall /\ num_children \in 1..3) =>
        \A i \in NetDone :
            LET x == employment_income_values[i]
                c == net_income_changes[i]
            IN  x >= 0 =>
                    /\ 0 <= c
                    /\ c <= 375 * 60
                    /\ (2500 <= x /\ 3 * x <= 34000 * num_children) => c = 375 * 60

C16_Witness ==
    /\ pc = "net_done"
    /\ num_children = 1
    /\ \E i \in NetDone :
        /\ employment_income_values[i] = 11333
        /\ net_income_changes[i] = Dollars(375)
    /\ \E i \in NetDone :
        /\ employment_income_values[i] = 11334
        /\ net_income_changes[i] < Dollars(375)

\* values by which step could be multiplied to span max_income - min_income
Multipliers == (0 - MaxSpan - 2)..(MaxSpan + 2)
InHouseholdCall == InNetCall \/ InComparisonCall

\* C17: a malformed income range (min_income > max_income, or step <= 0) is
\* surfaced as an error by both household functions instead of a result.
C17_MalformedRangeRaises ==
    (pc # "idle" /\ (min_income > max_income \/ step <= 0)) => pc = "raised"

\* C18: the income series of both household functions starts at min_income,
\* is strictly increasing with consecutive elements exactly step apart, has
\* every element <= max_income, and contains max_income exactly when step
\* divides max_income - min_income.
C18_SeriesEquallySpaced ==
    InHouseholdCall =>
        LET s == employment_income_values IN
        /\ Len(s) >= 1
        /\ s[1] = min_income
        /\ \A i \in 1..(Len(s) - 1) : s[i + 1] - s[i] = step /\ s[i] < s[i + 1]
        /\ \A i \in 1..Len(s) : s[i] <= max_income
        /\ (\E i \in 1..Len(s) : s[i] = max_income)
               <=> (\E m \in Multipliers : m * step = max_income - min_income)

\* C19: every curve is aligned to the income series by index: the change
\* list, and both credit lists, end with exactly the length of the income
\* list, and entry i is the value computed for income i.
C19_AlignedByIndex ==
    /\ InNetCall =>
        /\ Len(net_income_changes) <= Len(employment_income_values)
        /\ pc = "net_done" =>
            Len(net_income_changes) = Len(employment_income_values)
        /\ \A i \in NetDone :
            net_income_changes[i] =
                NetIncomeChange(employment_income_values[i], num_children)
    /\ InComparisonCall =>
        /\ Len(baseline_credits) = Len(reform_credits)
        /\ Len(baseline_credits) <= Len(employment_income_values)
        /\ pc = "cmp_done" =>
            Len(baseline_credits) = Len(employment_income_values)
        /\ \A i \in ComparisonDone :
            /\ baseline_credits[i] = BaselineCredit(employment_income_values[i])
            /\ reform_credits[i] = ReformCredit(employment_income_values[i])

C19_Witness ==
    /\ pc = "net_done"
    /\ Len(employment_income_values) = 3
    /\ Len(net_income_changes) = 3
    /\ net_income_changes[1] > net_income_changes[2]
    /\ net_income_changes[2] > net_income_changes[3]

(***************************************************************************)
(* Properties of generate_dynamic_charts.main.                             *)
(***************************************************************************)
\* no configuration was run more than once
NotRetried ==
    \A i, j \in 1..Len(simulations) : simulations[i] = simulations[j] => i = j

\* C20: when the microsimulation call of main fails, the failure is a hard
\* failure: main is still in that call or has ended failed, no simulation
\* was run a second time, no figure was created and no HTML file was
\* written; once failed, the run never takes another step.
C20_FailurePropagates ==
    /\ [](InMain /\ error # "none" =>
            /\ main_pc \in {"microsim", "failed"}
            /\ NotRetried
            /\ fig = NoFigure
            /\ files = << >>)
    /\ [][main_pc = "failed" => UNCHANGED vars]_vars

C20_Witness ==
    /\ main_pc = "failed"
    /\ error = "EngineError"
    /\ charts_dir_exists
    /\ files = << >>

(***************************************************************************)
(* Properties of the engine invocations of calculate_decile_impacts.       *)
(***************************************************************************)
\* the four arrays of lines 37-42 have been read
ArraysRead ==
    pc \in {"agg_household_level", "agg_masks", "agg_decile_outcomes",
            "agg_all_outcomes", "agg_debug", "agg_done"}

\* C21: one call invokes the engine exactly twice, for the baseline and then
\* for the reform, one after the other: the log of invocations is always a
\* prefix of << baseline, reform >>, nothing is read from a simulation
\* before both exist, and once both exist no step invokes the engine again.
C21_TwoSequentialRuns ==
    /\ [](/\ Len(simulations) <= 2
          /\ Len(simulations) >= 1 => simulations[1] = "baseline"
          /\ Len(simulations) = 2 => simulations[2] = "reform"
          /\ (ArraysRead \/ pc = "agg_read") =>
                simulations = << "baseline", "reform" >>
          /\ Len(simulations) < 2 =>
                /\ household_income_decile_hh = << >>
                /\ household_weights_hh = << >>
                /\ baseline_income_hh = << >>
                /\ reform_income_hh = << >>)
    /\ [][Len(simulations) = 2 => simulations' = simulations]_vars

C21_Witness ==
    /\ pc = "agg_done"
    /\ simulations = << "baseline", "reform" >>
    /\ Len(reform_income_hh) = 2
    /\ Len(baseline_income_hh) = 2

\* C22: a complete run of main creates output/charts before any write and
\* writes exactly four HTML files, with the four fixed names, each once and
\* in this order, each embedding the JSON of the figure created just before
\* it (the file written last always embeds the current figure, and file i
\* embeds the figure of the i-th create function).
C22_FourFilesInOrder ==
    LET names == << "dynamic-baseline-reform-comparison.html",
                    "dynamic-net-income-change.html",
                    "dynamic-winners-by-decile.html",
                    "dynamic-avg-benefit-by-decile.html" >>
        creators == << "create_dynamic_baseline_reform_chart",
                       "create_dynamic_net_income_change_chart",
                       "create_dynamic_winners_by_decile_chart",
                       "create_dynamic_avg_benefit_by_decile_chart" >>
    IN  /\ files # << >> => charts_dir_exists
        /\ Len(files) <= 4
        /\ main_pc = "done" => Len(files) = 4
        /\ \A i \in 1..Len(files) :
            /\ files[i].filename = names[i]
            /\ files[i].content.figure_json.json_of.chart = creators[i]
        /\ (files # << >> /\ main_pc \in {"create", "done"}) =>
            files[Len(files)].content.figure_json = ToJson(fig)
        /\ main_pc = "write" => fig.chart = creators[Len(files) + 1]

C22_Witness ==
    /\ main_pc = "done"
    /\ Len(files) = 4
    /\ files[4].content.figure_json.json_of.data = microsim_data
    /\ Len(microsim_data.avg_impact_by_decile) = NUM_DECILES

(***************************************************************************)
(* Which weights the aggregation uses.                                     *)
(***************************************************************************)
\* Persons per household: the person-level weight of a unit is its household
\* weight once for each person living in it.
HouseholdSizes == 1..2
PersonWeights(people) ==
    [i \in UnitIndices |-> household_weights_hh[i] * people[i]]

\* the sum of household weights over S, cut back to the units that exist
HouseholdWeightSum(S) == SumOver(household_weights_hh, S \cap UnitIndices)

InTenYearCall == pc \in {"ty_loop", "ty_done"}

\* the exact cost of offset i as the fraction num / den
ExactCost(i) ==
    [num |-> base_year_cost_millions
                * Pow(annual_growth_rate.den + annual_growth_rate.num, i),
     den |-> Pow(annual_growth_rate.den, i)]

\* the exact sum of the costs of offsets 0..i, over the denominator den^i
RECURSIVE ExactSumNum(_, _)
ExactSumNum(i, upto) ==
    IF i < 0 THEN 0
    ELSE ExactCost(i).num * Pow(annual_growth_rate.den, upto - i)
            + ExactSumNum(i - 1, upto)

\* C24: the list holds one entry per year from start_year through end_year,
\* ascending; the entry at offset i has the cost base * (1 + rate)^i rounded
\* to one decimal and the cumulative cost = the sum of the unrounded costs
\* of offsets 0..i rounded to one decimal.
C24_YearlyImpacts ==
    InTenYearCall =>
        /\ \A j \in 1..Len(yearly_impacts) :
            LET i == j - 1 IN
            /\ yearly_impacts[j].year = start_year + i
            /\ yearly_impacts[j].year <= end_year
            /\ yearly_impacts[j].cost_millions =
                   Round1(ExactCost(i).num, ExactCost(i).den)
            /\ yearly_impacts[j].cumulative_cost_millions =
                   Round1(ExactSumNum(i, i), ExactCost(i).den)
        /\ pc = "ty_done" =>
            Len(yearly_impacts) =
                IF end_year >= start_year THEN end_year - start_year + 1 ELSE 0

C24_Witness ==
    /\ pc = "ty_done"
    /\ base_year_cost_millions = 1593
    /\ annual_growth_rate = [num |-> 1, den |-> 50]
    /\ Len(yearly_impacts) = 3
    /\ yearly_impacts[3].cost_millions = 16574
    /\ yearly_impacts[3].cumulative_cost_millions = 48752

\* statewide.py line 31
REVENUE_IMPACT_MILLIONS == 0 - 789

\* C25: a call that passes no base_year_cost_millions uses 789 (million
\* dollars) as the cost of the first year, the magnitude of
\* statewide.REVENUE_IMPACT_MILLIONS.
C25_DefaultBaseIs789 ==
    (InTenYearCall /\ ~base_given) =>
        /\ base_year_cost_millions = 789
        /\ base_year_cost_millions = Abs(REVENUE_IMPACT_MILLIONS)
        /\ Len(yearly_impacts) >= 1 => yearly_impacts[1].cost_millions = 7890

\* C30: the total returned equals the cumulative cost of the last yearly
\* entry whenever the list is non-empty; when end_year < start_year the
\* list is empty and the total is 0.
C30_TotalIsLastCumulative ==
    pc = "ty_done" =>
        /\ yearly_impacts # << >> =>
            total_cost = yearly_impacts[Len(yearly_impacts)].cumulative_cost_millions
        /\ end_year < start_year => (yearly_impacts = << >> /\ total_cost = 0)

C30_Witness ==
    /\ pc = "ty_done"
    /\ Len(yearly_impacts) = 3
    /\ total_cost = 48752
    /\ yearly_impacts[1].cost_millions + yearly_impacts[2].cost_millions
            + yearly_impacts[3].cost_millions = 48753

(***************************************************************************)
(* Shape of the benefit curve.                                             *)
(***************************************************************************)
\* C26: for n in {1,2,3} the curve over incomes x >= 0 is a trapezoid:
\* non-decreasing up to 2500, 375 from 2500 to reform_reaches_max,
\* non-increasing from there to baseline_reaches_max, 0 above it, and it
\* never rises again after it has fallen.
C26_Trapezoid ==
    (InNetCall /\ num_children \in 1..3) =>
        LET n == num_children
            x(i) == employment_income_values[i]
            c(i) == net_income_changes[i]
            Seen == {i \in NetDone : x(i) >= 0}
        IN  /\ \A i \in Seen :
                /\ (2500 <= x(i) /\ Inc(x(i)) <= reform_reaches_max(n))
                        => c(i) = Dollars(375)
                /\ Inc(x(i)) > baseline_reaches_max(n) => c(i) = 0
            /\ \A i, j \in Seen :
                x(i) <= x(j) =>
                    /\ x(j) <= 2500 => c(i) <= c(j)
                    /\ (reform_reaches_max(n) <= Inc(x(i))
                            /\ Inc(x(j)) <= baseline_reaches_max(n)) => c(i) >= c(j)
            /\ \A i, j, k \in Seen :
                (x(i) <= x(j) /\ x(j) <= x(k)) => ~(c(i) > c(j) /\ c(k) > c(j))

C26_Witness ==
    /\ pc = "net_done"
    /\ num_children = 1
    /\ employment_income_values = << 11333, 11334, 11335 >>
    /\ net_income_changes[1] = Dollars(375)
    /\ net_income_changes[2] < net_income_changes[1]
    /\ net_income_changes[3] < net_income_changes[2]

\* C27: for every num_children the function accepts, 0 included, the curve
\* has no jump: the changes at incomes x >= 0 and x + 1 differ by at most
\* 0.15 dollars.
C27_NoJump ==
    InNetCall =>
        \A i, j \in NetDone :
            (employment_income_values[i] >= 0
                /\ employment_income_values[j] = employment_income_values[i] + 1)
            => Abs(net_income_changes[j] - net_income_changes[i]) <= TimesRate(Inc(1))

\* C28: for one child the two household formulas agree at every income
\* x >= 0: the change of calculate_net_income_changes is the reform credit
\* minus the baseline credit of calculate_baseline_reform_comparison.
C28_FormulasAgree ==
    /\ (InNetCall /\ num_children = 1) =>
        \A i \in NetDone :
            LET x == employment_income_values[i] IN
            x >= 0 => net_income_changes[i] = ReformCredit(x) - BaselineCredit(x)
    /\ InComparisonCall =>
        \A i \in ComparisonDone :
            LET x == employment_income_values[i] IN
            x >= 0 => reform_credits[i] - baseline_credits[i] = NetIncomeChange(x, 1)

C28_Witness ==
    /\ pc = "cmp_done"
    /\ \E i \in ComparisonDone :
        /\ employment_income_values[i] = 11334
        /\ reform_credits[i] = Dollars(MAX_REFUNDABLE)
        /\ baseline_credits[i] > 0
        /\ reform_credits[i] - baseline_credits[i] < Dollars(375)

(***************************************************************************)
(* Properties of the scenario dropdown.                                    *)
(***************************************************************************)
VisibleTraces == {j \in 1..Len(traces) : traces[j].visible}

\* C29: in the figure of create_net_income_change_chart exactly one of the
\* six traces is visible, initially and after any sequence of selections,
\* and it is the trace of the scenario the title names: Single, 1 child at
\* first, and scenario i after button i was selected.
C29_OneVisibleTrace ==
    pc = "chart_shown" =>
        /\ Len(traces) = 6
        /\ Cardinality(VisibleTraces) = 1
        /\ \A j \in VisibleTraces :
            /\ layout_title.filing_label =
                (IF traces[j].scenario.filing_status = "single"
                 THEN "Single" ELSE "Joint")
            /\ layout_title.num_children = traces[j].scenario.num_children
            /\ j = IF selections = << >> THEN 1 ELSE selections[Len(selections)]
        /\ selections = << >> =>
            (layout_title.filing_label = "Single" /\ layout_title.num_children = 1)

C29_Witness ==
    /\ pc = "chart_shown"
    /\ selections = << 5, 1, 6 >>
    /\ traces[6].visible
    /\ traces[6].scenario = [filing_status |-> "joint", num_children |-> 3]
    /\ layout_title.filing_label = "Joint"
    /\ layout_title.num_children = 3

====
